---------------------------- MODULE Spec2Model ----------------------------
(***************************************************************************)
(* A model of the rdb storage engine: the integer codec (enc.rs), the Meta *)
(* record and its validation, Db::open / Db::create / Db::init and the     *)
(* page array (db.rs).                                                     *)
(*                                                                         *)
(* A u64 is a sequence of 8 base-256 digits, least significant first, so   *)
(* that the full 64-bit width is kept; a u32 is the same with 4 digits.    *)
(***************************************************************************)
EXTENDS Integers, Sequences, FiniteSets, TLC

VARIABLES
    \* ---- codec (enc.rs) ----
    cv,        \* the u64 handed to the encoder
    cmem,      \* the bytes at p, p+1, ... (offset -> byte)
    cret,      \* the encoder's return value
    cwritten,  \* offsets the encoder wrote
    cout,      \* the decoder's return value (a u64)
    cread,     \* offsets the decoder read
    cpc,       \* "idle" | "start" | "encoded" | "decoded"
    \* ---- Meta record (db.rs) ----
    meta,      \* the 48 bytes of a Meta (offset -> byte)
    hkey,      \* which hash function DefaultHasher is in this build
    vres,      \* what validate() returned last
    mpc,       \* "idle" | "fresh" | "validated" | "mutated" | "revalidated"
    morig,     \* the Meta as it was before one of its bytes was changed
    moff,      \* the offset of the changed byte, -1 when none
    \* ---- PageArray (db.rs) ----
    plen,      \* PageArray.data.len(): the mapped length in bytes
    pid,       \* the page id asked for
    pacc,      \* the accessor called
    pres,      \* what the accessor did: a pointer (its byte offset) or a panic
    ppc,       \* "idle" | "call" | "done"
    \* ---- the database file and Db::open (db.rs) ----
    fexists,    \* whether a file exists at the path
    flen,       \* its length in bytes
    fmeta,      \* the Meta records stored at pages 0 and 1 of the file
    lockHolder, \* the process holding the exclusive advisory lock, 0 when none
    pc,         \* each process's position in Db::open
    settings,   \* each process's Settings
    sawExists,  \* what data_file_path.exists() answered
    mapped,     \* the memory map each process holds: "none" | "ro" | "rw"
    result,     \* what Db::open returned
    selected,   \* the Meta slot open selected for the Db, -1 when none
    \* ---- commit of a write transaction (spec section 4.4) ----
    kpc,        \* "off" | "idle" | "writing" | "checksummed" | "crashed"
    kactive,    \* the Meta slot that was active when the transaction began
    kprev,      \* the bytes of that slot when the transaction began
    knew,       \* the Meta the commit is writing to the other slot
    kcount,     \* how many of its fields have been written
    kdone,      \* commits completed
    \* ---- transactions and the freelist (spec sections 4.5, 4.7, 5) ----
    ttxid,      \* the transaction id of the committed Meta
    tpages,     \* each page id: "fresh" | "used" | "pending" | "free"
    tfreedBy,   \* the transaction that freed each pending or free page, 0 when none
    treaders,   \* the reader table: each slot's snapshot transaction id, -1 when empty
    twriter,    \* the id of the open write transaction, 0 when none
    talloc,     \* pages the open write transaction allocated that were free before
    tfresh,     \* pages the open write transaction allocated past the high-water mark
    tfreed,     \* pages the open write transaction freed
    tlast,      \* the pages the last allocate handed out
    terr,       \* the last error returned
    \* ---- PageIndex::new (db.rs) ----
    xov,        \* each page's u32 at byte offset PI_OFFSET_OVERFLOW
    xlen,       \* each page's u32 at byte offset PI_OFFSET_LENGTH
    xstart,     \* the id of the page PageIndex::new is given
    xbuild,     \* "debug" (overflow checks on) or "release" (wrapping)
    xcur,       \* the id of the page the loop is at
    xvisited,   \* the ids of the pages pushed onto page_ptrs
    xcount,     \* pages.len(), counted up to MaxVisits
    xdup,       \* whether a page was pushed a second time
    xlength,    \* the local length (u32)
    xcapacity,  \* the capacity of the PageIndex returned
    xpc,        \* "off" | "loop" | "returned" | "panicked" | "crashed"
    \* ---- values encoded back to back (enc.rs) ----
    senc,       \* the codec: "varint" | "leb64" | "leb32"
    sv,         \* the values, in the order they are encoded
    smem,       \* the buffer
    srets,      \* the values the encoder returned so far
    sout,       \* the values decoded so far
    spc,        \* "off" | "encode" | "decode" | "done"
    \* ---- JumpTable (mmap_array.rs) ----
    jcap,       \* the capacity given to JumpTable::new (the field length)
    jfilelen,   \* the length of the mapped file
    jres,       \* the last call of set or get and what it did
    jpc         \* "off" | "new" | "ready"

codecVars == <<cv, cmem, cret, cwritten, cout, cread, cpc>>

metaVars == <<meta, hkey, vres, mpc, morig, moff>>

pageVars == <<plen, pid, pacc, pres, ppc>>

fileVars == <<fexists, flen, fmeta>>

dbVars == <<fileVars, lockHolder, pc, settings, sawExists, mapped, result, selected>>

commitVars == <<kpc, kactive, kprev, knew, kcount, kdone>>

txVars == <<ttxid, tpages, tfreedBy, treaders, twriter, talloc, tfresh, tfreed, tlast, terr>>

indexVars == <<xov, xlen, xstart, xbuild, xcur, xvisited, xcount, xdup, xlength, xcapacity, xpc>>

seriesVars == <<senc, sv, smem, srets, sout, spc>>

jumpVars == <<jcap, jfilelen, jres, jpc>>

vars ==
    <<codecVars, metaVars, pageVars, dbVars, commitVars, txVars, indexVars, seriesVars,
      jumpVars>>

\* What the actions of each part leave alone
notCodec == <<metaVars, pageVars, dbVars, commitVars, txVars, indexVars, seriesVars, jumpVars>>

notMeta == <<codecVars, pageVars, dbVars, commitVars, txVars, indexVars, seriesVars, jumpVars>>

notPage == <<codecVars, metaVars, dbVars, commitVars, txVars, indexVars, seriesVars, jumpVars>>

notDb == <<codecVars, metaVars, pageVars, commitVars, txVars, indexVars, seriesVars, jumpVars>>

notCommit == <<codecVars, metaVars, pageVars, txVars, indexVars, seriesVars, jumpVars>>

notTx == <<codecVars, metaVars, pageVars, dbVars, commitVars, indexVars, seriesVars, jumpVars>>

notIndex == <<codecVars, metaVars, pageVars, dbVars, commitVars, txVars, seriesVars, jumpVars>>

notSeries == <<codecVars, metaVars, pageVars, dbVars, commitVars, txVars, indexVars, jumpVars>>

notJump == <<codecVars, metaVars, pageVars, dbVars, commitVars, txVars, indexVars, seriesVars>>

----------------------------------------------------------------------------
(* Bytes and fixed-width integers *)

\* 256^k for the k a 31-bit integer allows
Pow256(k) == CASE k = 0 -> 1 [] k = 1 -> 256 [] k = 2 -> 65536 [] OTHER -> 16777216

\* The u64 with value n (0 <= n < 2^31)
FromInt(n) ==
    [i \in 1..8 |-> IF i <= 3 THEN (n \div Pow256(i - 1)) % 256
                    ELSE IF i = 4 THEN n \div 16777216
                    ELSE 0]

U64Zero == FromInt(0)

\* Whether the u64 d fits the model's integers
FitsInt(d) == d[5] = 0 /\ d[6] = 0 /\ d[7] = 0 /\ d[8] = 0 /\ d[4] < 128

ToInt(d) == d[1] + 256 * d[2] + 65536 * d[3] + 16777216 * d[4]

\* d < n, for a u64 d and a small integer n
U64Lt(d, n) == FitsInt(d) /\ ToInt(d) < n

\* Number of bits of a byte: 8 - leading zeros
RECURSIVE BitLen(_)
BitLen(b) == IF b = 0 THEN 0 ELSE 1 + BitLen(b \div 2)

\* Index (1..8) of the most significant non-zero digit, 0 for the value 0
TopDigit(d) ==
    IF \A i \in 1..8 : d[i] = 0 THEN 0
    ELSE CHOOSE i \in 1..8 : d[i] # 0 /\ \A j \in (i + 1)..8 : d[j] = 0

\* u64::leading_zeros
leading_zeros(d) ==
    IF TopDigit(d) = 0 THEN 64
    ELSE 64 - (8 * (TopDigit(d) - 1) + BitLen(d[TopDigit(d)]))

\* v >> 8
Shr8(d) == [i \in 1..8 |-> IF i < 8 THEN d[i + 1] ELSE 0]

\* v as u8
AsU8(d) == d[1]

----------------------------------------------------------------------------
(* enc.rs: raw memory access through a pointer *)

\* Bytes of memory the model keeps behind the pointer p
MemLen == 12

ZeroMem == [o \in 0..(MemLen - 1) |-> 0]

\* encode_with_offset::<u8>
encode_with_offset(m, offset, b) == [m EXCEPT ![offset] = b]

\* from_ptr_with_offset::<u8>
from_ptr_with_offset(m, offset) == m[offset]

----------------------------------------------------------------------------
(* enc.rs: the varint codec *)

VARINT_CUT1 == 201

VARINT_CUT2 == 249

\* The encoder's loop `for i in 1..bytes + 1`: writes v as u8 at offset i,
\* then v >>= 8.
RECURSIVE EncodeLoop(_, _, _, _)
EncodeLoop(m, v, i, bytes) ==
    IF i > bytes THEN m
    ELSE EncodeLoop(encode_with_offset(m, i, AsU8(v)), Shr8(v), i + 1, bytes)

\* A variant bug: the two-byte range ends where the documented table says
\* (12743) instead of where the selector bytes 201..248 end (12487).
encode_varint_u64_wide(m, v) ==
    IF U64Lt(v, VARINT_CUT1)
    THEN [mem |-> encode_with_offset(m, 0, AsU8(v)), ret |-> 1, written |-> {0}]
    ELSE IF U64Lt(v, VARINT_CUT1 + 255 + 256 * (VARINT_CUT2 - VARINT_CUT1))
    THEN LET w == ToInt(v) - 200
         IN  [mem |-> encode_with_offset(
                          encode_with_offset(m, 0, ((w \div 256) + VARINT_CUT1) % 256),
                          1, w % 256),
              ret |-> 2, written |-> {0, 1}]
    ELSE LET bits == 64 - leading_zeros(v)
             bytes == (bits + 7) \div 8
             b0 == VARINT_CUT2 + (bytes - 2)
         IN  [mem |-> EncodeLoop(encode_with_offset(m, 0, b0 % 256), v, 1, bytes),
              ret |-> bytes, written |-> 0..bytes]

\* A variant bug: the selectors of the multi-byte forms start at 250, as in
\* the documented table, instead of at VARINT_CUT2.
encode_varint_u64_from250(m, v) ==
    IF U64Lt(v, VARINT_CUT1)
    THEN [mem |-> encode_with_offset(m, 0, AsU8(v)), ret |-> 1, written |-> {0}]
    ELSE IF U64Lt(v, VARINT_CUT1 + 255 + 256 * (VARINT_CUT2 - VARINT_CUT1 - 1))
    THEN LET w == ToInt(v) - 200
         IN  [mem |-> encode_with_offset(
                          encode_with_offset(m, 0, ((w \div 256) + VARINT_CUT1) % 256),
                          1, w % 256),
              ret |-> 2, written |-> {0, 1}]
    ELSE LET bits == 64 - leading_zeros(v)
             bytes == (bits + 7) \div 8
             b0 == VARINT_CUT2 + (bytes - 1)
         IN  [mem |-> EncodeLoop(encode_with_offset(m, 0, b0 % 256), v, 1, bytes),
              ret |-> bytes, written |-> 0..bytes]

\* encode_varint_u64(p, v): the memory after the call, the value returned and
\* the offsets written.
encode_varint_u64(m, v) ==
    IF U64Lt(v, VARINT_CUT1)
    THEN [mem |-> encode_with_offset(m, 0, AsU8(v)), ret |-> 1, written |-> {0}]
    ELSE IF U64Lt(v, VARINT_CUT1 + 255 + 256 * (VARINT_CUT2 - VARINT_CUT1 - 1))
    THEN LET w == ToInt(v) - 200
         IN  [mem |-> encode_with_offset(
                          encode_with_offset(m, 0, ((w \div 256) + VARINT_CUT1) % 256),
                          1, w % 256),
              ret |-> 2, written |-> {0, 1}]
    ELSE LET bits == 64 - leading_zeros(v)
             bytes == (bits + 7) \div 8
             b0 == VARINT_CUT2 + (bytes - 2)
         IN  [mem |-> EncodeLoop(encode_with_offset(m, 0, b0 % 256), v, 1, bytes),
              ret |-> bytes, written |-> 0..bytes]

\* b << (8 * k) of a byte b widened to u64: b lands in digit k + 1; a shift
\* of 64 or more is not reached (bytes <= 8).
ShlByte(b, k) == [i \in 1..8 |-> IF i = k + 1 THEN b ELSE 0]

\* Bitwise or of two bytes
RECURSIVE ByteOr(_, _)
ByteOr(a, b) ==
    IF a = 0 THEN b
    ELSE IF b = 0 THEN a
    ELSE (IF a % 2 = 1 \/ b % 2 = 1 THEN 1 ELSE 0) + 2 * ByteOr(a \div 2, b \div 2)

\* v | w
U64Or(v, w) == [i \in 1..8 |-> ByteOr(v[i], w[i])]

\* The decoder's loop `for i in 2..bytes + 1`
RECURSIVE DecodeLoop(_, _, _, _)
DecodeLoop(m, v, i, bytes) ==
    IF i > bytes THEN v
    ELSE DecodeLoop(m, U64Or(v, ShlByte(from_ptr_with_offset(m, i), i - 1)),
                    i + 1, bytes)

\* A variant bug: the multi-byte forms are read as a whole 8-byte word after
\* the selector, whatever the selector says.
decode_varint_u64_word(m) ==
    LET b0 == from_ptr_with_offset(m, 0)
    IN  IF b0 < VARINT_CUT1
        THEN [val |-> FromInt(b0), read |-> {0}]
        ELSE IF b0 < VARINT_CUT2
        THEN [val |-> FromInt(VARINT_CUT1 - 1 + ((b0 - VARINT_CUT1) * 256)
                              + from_ptr_with_offset(m, 1)),
              read |-> {0, 1}]
        ELSE LET bytes == b0 - VARINT_CUT2 + 2
             IN  [val |-> DecodeLoop(m, FromInt(from_ptr_with_offset(m, 1)), 2, bytes),
                  read |-> 0..8]

\* decode_varint_u64(p): the value returned and the offsets read
decode_varint_u64(m) ==
    LET b0 == from_ptr_with_offset(m, 0)
    IN  IF b0 < VARINT_CUT1
        THEN [val |-> FromInt(b0), read |-> {0}]
        ELSE IF b0 < VARINT_CUT2
        THEN [val |-> FromInt(VARINT_CUT1 - 1 + ((b0 - VARINT_CUT1) * 256)
                              + from_ptr_with_offset(m, 1)),
              read |-> {0, 1}]
        ELSE LET bytes == b0 - VARINT_CUT2 + 2
             IN  [val |-> DecodeLoop(m, FromInt(from_ptr_with_offset(m, 1)), 2, bytes),
                  read |-> 0..bytes]

----------------------------------------------------------------------------
(* enc.rs: the LEB128 codec *)

\* 2^k for k in 0..7
Pow2(k) == CASE k = 0 -> 1 [] k = 1 -> 2 [] k = 2 -> 4 [] k = 3 -> 8
             [] k = 4 -> 16 [] k = 5 -> 32 [] k = 6 -> 64 [] OTHER -> 128

\* value >> 7 (u64)
Shr7(d) == [i \in 1..8 |-> d[i] \div 128 + (IF i < 8 THEN (d[i + 1] % 128) * 2 ELSE 0)]

\* value > 127 (u64)
Above127(d) == d[1] > 127 \/ \E i \in 2..8 : d[i] # 0

\* (x as u64) << shift for a byte x < 128 and shift < 64; bits shifted past
\* bit 63 are lost
Shl7(x, shift) ==
    LET q == shift \div 8
        w == x * Pow2(shift % 8)
    IN  [i \in 1..8 |-> IF i = q + 1 THEN w % 256
                        ELSE IF i = q + 2 THEN w \div 256
                        ELSE 0]

\* encode_with_offset::<u32>: the four bytes of the u32 held in the low
\* digits of d, little-endian, at offset..offset + 3
encode_with_offset_u32(m, offset, d) ==
    [o \in DOMAIN m |-> IF o >= offset /\ o < offset + 4 THEN d[o - offset + 1] ELSE m[o]]

\* The loop of encode_leb_u64: while value > 127 the byte (value as u8) | 128
\* is written at offset
RECURSIVE LebEncodeLoop(_, _, _)
LebEncodeLoop(m, value, offset) ==
    IF Above127(value)
    THEN LebEncodeLoop(encode_with_offset(m, offset, ByteOr(AsU8(value), 128)),
                       Shr7(value), offset + 1)
    ELSE [mem |-> encode_with_offset(m, offset, AsU8(value)), offset |-> offset]

\* A variant bug: the continuation bit is left out of the bytes of the loop.
RECURSIVE LebEncodeLoop_plain(_, _, _)
LebEncodeLoop_plain(m, value, offset) ==
    IF Above127(value)
    THEN LebEncodeLoop_plain(encode_with_offset(m, offset, AsU8(value)),
                             Shr7(value), offset + 1)
    ELSE [mem |-> encode_with_offset(m, offset, AsU8(value)), offset |-> offset]

encode_leb_u64_plain(m, v) ==
    LET r == LebEncodeLoop_plain(m, v, 0)
    IN  [mem |-> r.mem, ret |-> r.offset, written |-> 0..r.offset]

\* encode_leb_u64(p, v): the memory after the call, the value returned (the
\* local offset) and the offsets written
encode_leb_u64(m, v) ==
    LET r == LebEncodeLoop(m, v, 0)
    IN  [mem |-> r.mem, ret |-> r.offset, written |-> 0..r.offset]

\* The loop of decode_leb_u64, entered with offset = 1 and shift = 7; a
\* shift of 64 or more (overflow: a panic or a masked shift) and a read
\* past the memory kept here end the loop with ok = FALSE
RECURSIVE LebDecodeLoop(_, _, _, _)
LebDecodeLoop(m, val, offset, shift) ==
    IF offset >= MemLen \/ shift >= 64
    THEN [val |-> val, read |-> 0..(offset - 1), ok |-> FALSE]
    ELSE LET b0 == from_ptr_with_offset(m, offset)
             v2 == U64Or(val, Shl7(b0 % 128, shift))
         IN  IF b0 < 128
             THEN [val |-> v2, read |-> 0..offset, ok |-> TRUE]
             ELSE LebDecodeLoop(m, v2, offset + 1, shift + 7)

\* decode_leb_u64(p): the value returned and the offsets read
decode_leb_u64(m) ==
    LET b0 == from_ptr_with_offset(m, 0)
    IN  IF b0 < 128
        THEN [val |-> FromInt(b0), read |-> {0}, ok |-> TRUE]
        ELSE LebDecodeLoop(m, FromInt(b0 % 128), 1, 7)

\* value | 128 (u32 held in a u64)
Or128(d) == [d EXCEPT ![1] = ByteOr(d[1], 128)]

\* value >> (7 * n)
RECURSIVE Shr7N(_, _)
Shr7N(d, n) == IF n = 0 THEN d ELSE Shr7N(Shr7(d), n - 1)

\* value < (1 << (7 * n))
Below(d, n) == ~Above127(Shr7N(d, n - 1))

\* encode_leb_u32(p, value): the memory after the call, the value returned
\* and the offsets written.  All but the first form write u32 values: each
\* encode_with_offset stores four bytes.
encode_leb_u32(m, value) ==
    IF Below(value, 1)
    THEN [mem |-> encode_with_offset(m, 0, AsU8(value)), ret |-> 1, written |-> {0}]
    ELSE LET n == IF Below(value, 2) THEN 2 ELSE IF Below(value, 3) THEN 3
                  ELSE IF Below(value, 4) THEN 4 ELSE 5
             W(mm, o) == encode_with_offset_u32(mm, o,
                             IF o = n - 1 THEN Shr7N(value, o) ELSE Or128(Shr7N(value, o)))
             m0 == W(m, 0)
             m1 == W(m0, 1)
             m2 == IF n > 2 THEN W(m1, 2) ELSE m1
             m3 == IF n > 3 THEN W(m2, 3) ELSE m2
             m4 == IF n > 4 THEN W(m3, 4) ELSE m3
         IN  [mem |-> m4, ret |-> n, written |-> 0..(n + 2)]

\* decode_leb_u32(p): decode_leb_u64(p) as u32
decode_leb_u32(m) ==
    LET r == decode_leb_u64(m)
    IN  [val |-> [i \in 1..8 |-> IF i <= 4 THEN r.val[i] ELSE 0], read |-> r.read, ok |-> r.ok]

----------------------------------------------------------------------------
(* constants.rs *)

OS_PAGE_SIZE == 4096

\* 0xBADC0DE
MAGIC_KEY == 195936478

VERSION == 1

----------------------------------------------------------------------------
(* db.rs: the Meta record.  #[repr(C)] lays the fields out at these offsets *)
(* (a little-endian 64-bit target): magic 0, version 4, flags 8,           *)
(* page_size 12, checksum 16, transaction_id 24, little_endian 32,         *)
(* three bytes of padding 33..35, root 36, freelist 40, pgid 44.           *)

META_SIZE == 48

\* The u32 with value n
U32(n) == [i \in 1..4 |-> FromInt(n)[i]]

\* The len bytes of m from offset off, as digits
FieldAt(m, off, len) == [i \in 1..len |-> m[off + i - 1]]

MetaMagic(m) == FieldAt(m, 0, 4)

MetaVersion(m) == FieldAt(m, 4, 4)

MetaFlags(m) == FieldAt(m, 8, 4)

MetaPageSize(m) == FieldAt(m, 12, 4)

MetaChecksum(m) == FieldAt(m, 16, 8)

MetaTransactionId(m) == FieldAt(m, 24, 8)

MetaLittleEndian(m) == m[32]

MetaRoot(m) == FieldAt(m, 36, 4)

MetaFreelist(m) == FieldAt(m, 40, 4)

MetaPgid(m) == FieldAt(m, 44, 4)

\* A Meta from its fields: u32 fields as 4 digits, u64 fields as 8 digits,
\* the bool as a byte; padding bytes are zero.
MkMeta(magic, version, flags, page_size, checksum, transaction_id, little_endian, root, freelist, pgid) ==
    [o \in 0..(META_SIZE - 1) |->
        IF o < 4 THEN magic[o + 1]
        ELSE IF o < 8 THEN version[o - 3]
        ELSE IF o < 12 THEN flags[o - 7]
        ELSE IF o < 16 THEN page_size[o - 11]
        ELSE IF o < 24 THEN checksum[o - 15]
        ELSE IF o < 32 THEN transaction_id[o - 23]
        ELSE IF o = 32 THEN little_endian
        ELSE IF o < 36 THEN 0
        ELSE IF o < 40 THEN root[o - 35]
        ELSE IF o < 44 THEN freelist[o - 39]
        ELSE pgid[o - 43]]

\* Meta::default()
MetaDefault ==
    MkMeta(U32(MAGIC_KEY), U32(VERSION), U32(0), U32(OS_PAGE_SIZE), U64Zero,
           U64Zero, 1, U32(0), U32(0), U32(0))

\* The same Meta with another checksum
WithChecksum(m, c) == [o \in 0..(META_SIZE - 1) |-> IF o >= 16 /\ o < 24 THEN c[o - 15] ELSE m[o]]

\* #[derive(Hash)]: the bytes fed to the hasher, every field in declaration
\* order, the checksum field among them, the padding not; `le` is the byte
\* the bool little_endian reads as.
HashStream(m, le) ==
    MetaMagic(m) \o MetaVersion(m) \o MetaFlags(m) \o MetaPageSize(m)
    \o MetaChecksum(m) \o MetaTransactionId(m) \o <<le>>
    \o MetaRoot(m) \o MetaFreelist(m) \o MetaPgid(m)

\* Reading a bool whose byte is neither 0 nor 1 is undefined behaviour: the
\* byte may read as itself or as either truth value.
BoolReads(b) == IF b \in {0, 1} THEN {b} ELSE {0, 1, b}

\* DefaultHasher: the standard library leaves its algorithm unspecified.  The
\* model takes a family of hash functions of the byte stream, indexed by
\* key, with results below HashMod.
HashMod == 251

MaxHashKey == 2

\* Feeding the bytes lo..hi to the hasher takes its state h to
\* (a * h + b) % HashMod: the pair <<a, b>>, a run of bytes being its two
\* halves fed one after the other
RECURSIVE HashRun(_, _, _)
HashRun(bytes, lo, hi) ==
    IF lo = hi THEN <<31, (bytes[lo] + 7) % HashMod>>
    ELSE LET mid == (lo + hi) \div 2
             l == HashRun(bytes, lo, mid)
             r == HashRun(bytes, mid + 1, hi)
         IN  <<(l[1] * r[1]) % HashMod, (r[1] * l[2] + r[2]) % HashMod>>

\* Each byte fed takes the state h to (h * 31 + byte + 7) % HashMod
DefaultHasher(h, bytes) ==
    IF bytes = <<>> THEN h
    ELSE LET run == HashRun(bytes, 1, Len(bytes))
         IN  (run[1] * h + run[2]) % HashMod

\* hash(&self), as a u64
hash(key, m, le) == FromInt(DefaultHasher(key, HashStream(m, le)))

\* A variant bug: the version is tested before the magic stamp.
validate_version_first(key, m, le) ==
    IF MetaVersion(m) # U32(VERSION) THEN "DatabaseVersionMismatch"
    ELSE IF MetaMagic(m) # U32(MAGIC_KEY) THEN "DatabaseInvalid"
    ELSE IF MetaChecksum(m) # U64Zero /\ MetaChecksum(m) # hash(key, m, le)
    THEN "ChecksumError"
    ELSE "Ok"

\* A variant bug: a zero checksum is checked like any other.
validate_no_bootstrap(key, m, le) ==
    IF MetaMagic(m) # U32(MAGIC_KEY) THEN "DatabaseInvalid"
    ELSE IF MetaVersion(m) # U32(VERSION) THEN "DatabaseVersionMismatch"
    ELSE IF MetaChecksum(m) # hash(key, m, le) THEN "ChecksumError"
    ELSE "Ok"

\* Meta::validate
validate(key, m, le) ==
    IF MetaMagic(m) # U32(MAGIC_KEY) THEN "DatabaseInvalid"
    ELSE IF MetaVersion(m) # U32(VERSION) THEN "DatabaseVersionMismatch"
    ELSE IF MetaChecksum(m) # U64Zero /\ MetaChecksum(m) # hash(key, m, le)
    THEN "ChecksumError"
    ELSE "Ok"

----------------------------------------------------------------------------
(* Inputs of the codec *)

\* Small values 0..MaxSmall are all tried
MaxSmall == 260

\* Values within Window of each range boundary are tried
Window == 3

\* The range boundaries of the code's table and of the documented table
Boundaries == {200, 12487, 12743, 65535, 78278, 16777215}

\* 2^(8k) + d
PowPlus(k, d) == [i \in 1..8 |-> IF i = k + 1 THEN 1 ELSE IF i = 1 THEN d ELSE 0]

\* 2^(8k) - 1 - d
PowMinus(k, d) == [i \in 1..8 |-> IF i > k THEN 0 ELSE IF i = 1 THEN 255 - d ELSE 255]

\* 2^64 - 1 - d
U64Max(d) == [i \in 1..8 |-> IF i = 1 THEN 255 - d ELSE 255]

CodecInputs ==
    {FromInt(n) : n \in 0..MaxSmall}
    \cup {FromInt(b + e) : b \in Boundaries, e \in (0 - Window)..(Window + 1)}
    \cup {PowPlus(k, d) : k \in 3..7, d \in 0..Window}
    \cup {PowMinus(k, d) : k \in 3..7, d \in 0..Window}
    \cup {U64Max(d) : d \in 0..Window}

\* v <= 2^56 - 1
InVarintRange(v) == v[8] = 0

----------------------------------------------------------------------------
(* The codec as a state machine: a value is encoded into a zeroed buffer,   *)
(* then decoded from it (tests::encode_decode_range).                       *)

CodecIdle ==
    /\ cv = U64Zero
    /\ cmem = ZeroMem
    /\ cret = 0
    /\ cwritten = {}
    /\ cout = U64Zero
    /\ cread = {}
    /\ cpc = "idle"

\* Buffers of arbitrary content handed to the decoder: every leading byte,
\* followed by zeros, by 255s or by bytes that differ from each other
RawBuffers ==
    {[o \in 0..(MemLen - 1) |-> IF o = 0 THEN b0
                                ELSE CASE fill = 0 -> 0
                                       [] fill = 1 -> 255
                                       [] OTHER -> 16 * o + 1] :
        b0 \in 0..255, fill \in 0..2}

\* 2^k (k < 64)
Bit(k) == [i \in 1..8 |-> IF i = (k \div 8) + 1 THEN Pow2(k % 8) ELSE 0]

\* 2^k - 1 (k < 64)
BitMinus(k) ==
    [i \in 1..8 |-> IF i <= k \div 8 THEN 255
                    ELSE IF i = (k \div 8) + 1 THEN Pow2(k % 8) - 1
                    ELSE 0]

\* Values given to encode_leb_u64: those of the varint codec and the values
\* around each power 2^(7k)
LebInputs ==
    CodecInputs
    \cup {Bit(7 * k) : k \in 1..9}
    \cup {BitMinus(7 * k) : k \in 1..9}
    \cup {Bit(31), BitMinus(32), Bit(32), Bit(63)}

\* Values given to encode_leb_u32
Leb32Inputs == {v \in LebInputs : v[5] = 0 /\ v[6] = 0 /\ v[7] = 0 /\ v[8] = 0}

\* A buffer whose bytes all hold b
FilledMem(b) == [o \in 0..(MemLen - 1) |-> b]

CodecInit ==
    /\ \/ /\ cv \in CodecInputs
          /\ cmem = ZeroMem
          /\ cpc = "start"
       \/ /\ cv = U64Zero
          /\ cmem \in RawBuffers
          /\ cpc = "raw"
       \/ /\ cv \in LebInputs
          /\ cmem = ZeroMem
          /\ cpc = "start64"
       \/ /\ cv \in Leb32Inputs
          /\ cmem \in {ZeroMem, FilledMem(255)}
          /\ cpc = "start32"
    /\ cret = 0
    /\ cwritten = {}
    /\ cout = U64Zero
    /\ cread = {}

EncodeVarint ==
    /\ cpc = "start"
    /\ LET r == encode_varint_u64(cmem, cv)
       IN  /\ cmem' = r.mem
           /\ cret' = r.ret
           /\ cwritten' = r.written
    /\ cpc' = "encoded"
    /\ UNCHANGED <<cv, cout, cread, notCodec>>

DecodeVarint ==
    /\ cpc = "encoded"
    /\ LET r == decode_varint_u64(cmem)
       IN  /\ cout' = r.val
           /\ cread' = r.read
    /\ cpc' = "decoded"
    /\ UNCHANGED <<cv, cmem, cret, cwritten, notCodec>>

\* decode_varint_u64 applied to a buffer no encoder wrote
DecodeRaw ==
    /\ cpc = "raw"
    /\ LET r == decode_varint_u64(cmem)
       IN  /\ cout' = r.val
           /\ cread' = r.read
    /\ cpc' = "rawdecoded"
    /\ UNCHANGED <<cv, cmem, cret, cwritten, notCodec>>

\* tests::can_encode_and_decode_leb_64: encode_leb_u64 into the buffer
EncodeLeb64 ==
    /\ cpc = "start64"
    /\ LET r == encode_leb_u64(cmem, cv)
       IN  /\ cmem' = r.mem
           /\ cret' = r.ret
           /\ cwritten' = r.written
    /\ cpc' = "encoded64"
    /\ UNCHANGED <<cv, cout, cread, notCodec>>

\* ... then decode_leb_u64 from it
DecodeLeb64 ==
    /\ cpc = "encoded64"
    /\ LET r == decode_leb_u64(cmem)
       IN  /\ cout' = r.val
           /\ cread' = r.read
           /\ cpc' = IF r.ok THEN "decoded64" ELSE "failed64"
    /\ UNCHANGED <<cv, cmem, cret, cwritten, notCodec>>

\* tests::can_encode_and_decode_leb32: encode_leb_u32 into the buffer
EncodeLeb32 ==
    /\ cpc = "start32"
    /\ LET r == encode_leb_u32(cmem, cv)
       IN  /\ cmem' = r.mem
           /\ cret' = r.ret
           /\ cwritten' = r.written
    /\ cpc' = "encoded32"
    /\ UNCHANGED <<cv, cout, cread, notCodec>>

\* ... then decode_leb_u32 from it
DecodeLeb32 ==
    /\ cpc = "encoded32"
    /\ LET r == decode_leb_u32(cmem)
       IN  /\ cout' = r.val
           /\ cread' = r.read
           /\ cpc' = IF r.ok THEN "decoded32" ELSE "failed32"
    /\ UNCHANGED <<cv, cmem, cret, cwritten, notCodec>>

CodecNext ==
    \/ EncodeVarint
    \/ DecodeVarint
    \/ DecodeRaw
    \/ EncodeLeb64
    \/ DecodeLeb64
    \/ EncodeLeb32
    \/ DecodeLeb32

----------------------------------------------------------------------------
(* Meta::validate as a state machine: a Meta is validated; one that        *)
(* validates with a non-zero checksum then has one byte of its stored      *)
(* record changed and is validated again.                                  *)

\* Largest transaction id of the Metas tried
MaxTxid == 2

\* How many successors of a byte's value are tried when it is changed
MaxDelta == 2

\* The non-zero checksums c for which the Meta m, holding c, hashes to c
FixedPoints(key, m) ==
    {FromInt(c) : c \in {x \in 1..(HashMod - 1) :
                            hash(key, WithChecksum(m, FromInt(x)), m[32]) = FromInt(x)}}

\* The hash of every field but the checksum: the checksum field left out of
\* the bytes fed to the hasher
HashStreamRemaining(m, le) ==
    MetaMagic(m) \o MetaVersion(m) \o MetaFlags(m) \o MetaPageSize(m)
    \o MetaTransactionId(m) \o <<le>>
    \o MetaRoot(m) \o MetaFreelist(m) \o MetaPgid(m)

HashRemaining(key, m) == FromInt(DefaultHasher(key, HashStreamRemaining(m, m[32])))

MetaBases ==
    {MkMeta(mg, vs, U32(0), U32(OS_PAGE_SIZE), U64Zero, FromInt(t), le, rt, U32(fl), U32(4)) :
        mg \in {U32(MAGIC_KEY), U32(MAGIC_KEY + 1), U32(0)},
        vs \in {U32(VERSION), U32(VERSION + 1)},
        t \in 0..MaxTxid,
        le \in {0, 1},
        rt \in {U32(0), U32(2)},
        fl \in {0, 3}}

MetaInputs(key) ==
    UNION {{WithChecksum(m, c) :
               c \in {U64Zero, FromInt(5), HashRemaining(key, m)} \cup FixedPoints(key, m)} :
           m \in MetaBases}

MetaIdle ==
    /\ meta = MetaDefault
    /\ hkey = 0
    /\ vres = "none"
    /\ mpc = "idle"
    /\ morig = MetaDefault
    /\ moff = -1

MetaInit ==
    /\ hkey \in 0..MaxHashKey
    /\ meta \in MetaInputs(hkey)
    /\ vres = "none"
    /\ mpc = "fresh"
    /\ morig = meta
    /\ moff = -1

\* validate(&self): the Meta is borrowed immutably
Validate ==
    /\ mpc \in {"fresh", "mutated"}
    /\ \E le \in BoolReads(MetaLittleEndian(meta)) : vres' = validate(hkey, meta, le)
    /\ mpc' = IF mpc = "fresh" THEN "validated" ELSE "revalidated"
    /\ UNCHANGED <<meta, hkey, morig, moff, notMeta>>

MutValues(old) == ({0, 1, 255} \cup {(old + d) % 256 : d \in 1..MaxDelta}) \ {old}

\* One byte of the stored record changes
MutateByte ==
    /\ mpc = "validated"
    /\ vres = "Ok"
    /\ MetaChecksum(meta) # U64Zero
    /\ \E off \in 0..(META_SIZE - 1) : \E b \in MutValues(meta[off]) :
          /\ meta' = [meta EXCEPT ![off] = b]
          /\ moff' = off
    /\ morig' = meta
    /\ mpc' = "mutated"
    /\ UNCHANGED <<hkey, vres, notMeta>>

MetaNext == Validate \/ MutateByte

----------------------------------------------------------------------------
(* db.rs: PageArray *)

\* Mappings of up to MaxPages whole pages, and ids up to MaxPages + 2
MaxPages == 4

\* check_bounds: assert!(self.data.len() >= OS_PAGE_SIZE * id as usize);
\* TRUE when the assertion passes, FALSE when it panics
check_bounds(len, id) == len >= OS_PAGE_SIZE * id

\* page_ptr and page_mut_ptr (the same steps): the pointer returned, as its
\* byte offset from the start of the mapping, or the panic of check_bounds
page_ptr(len, id) ==
    IF id = 0 THEN [kind |-> "ptr", offset |-> 0]
    ELSE IF ~check_bounds(len, id) THEN [kind |-> "panic", offset |-> 0]
    ELSE [kind |-> "ptr", offset |-> OS_PAGE_SIZE * id]

\* get_page_info: PageInfo { ptr: self.page_ptr(id), id: id }
get_page_info(len, id) == page_ptr(len, id)

\* Mapped lengths: whole pages, and lengths that end inside a page
PageLengths ==
    {k * OS_PAGE_SIZE + r : k \in 0..MaxPages, r \in {0, 1, OS_PAGE_SIZE - 1}} \ {0}

PageIdle ==
    /\ plen = OS_PAGE_SIZE
    /\ pid = 0
    /\ pacc = "none"
    /\ pres = [kind |-> "none", offset |-> 0]
    /\ ppc = "idle"

PageInit ==
    /\ plen \in PageLengths
    /\ pid \in 0..(MaxPages + 2)
    /\ pacc \in {"page_ptr", "page_mut_ptr", "get_page_info"}
    /\ pres = [kind |-> "none", offset |-> 0]
    /\ ppc = "call"

PageAccess ==
    /\ ppc = "call"
    /\ pres' = (IF pacc = "get_page_info" THEN get_page_info(plen, pid)
                ELSE page_ptr(plen, pid))
    /\ ppc' = "done"
    /\ UNCHANGED <<plen, pid, pacc, notPage>>

PageNext == PageAccess

----------------------------------------------------------------------------
(* db.rs: the database file, Db::open, Db::create and Db::init.  Each      *)
(* process calls Db::open; the steps of the call interleave with those of  *)
(* the other processes.  File-system failures other than those the code's  *)
(* own steps provoke (mapping an empty file) are left out.                 *)

\* Number of processes opening the database
NProcs == 2

Procs == 1..NProcs

\* Pages Db::create gives a new file (set_len(OS_PAGE_SIZE as u64 * 4))
CREATE_PAGES == 4

ZeroMeta == [o \in 0..(META_SIZE - 1) |-> 0]

\* The hash function of this build, when the Metas of a file are validated
DbHashKey == 0

\* Whether a stored Meta passes validate()
Validates(m) ==
    \A le \in BoolReads(MetaLittleEndian(m)) : validate(DbHashKey, m, le) = "Ok"

\* a > b for two u64
U64Gt(a, b) ==
    \E i \in 1..8 : a[i] > b[i] /\ \A j \in (i + 1)..8 : a[j] = b[j]

\* A Meta with the given transaction id and checksum, otherwise as created
DiskMeta(magic, txid, checksum) ==
    MkMeta(U32(magic), U32(VERSION), U32(0), U32(OS_PAGE_SIZE), FromInt(checksum),
           FromInt(txid), 1, U32(0), U32(0), U32(0))

\* What the two Meta pages of an existing file may hold
DiskMetas ==
    {MetaDefault, DiskMeta(MAGIC_KEY, 5, 0), DiskMeta(MAGIC_KEY, 7, 0),
     DiskMeta(0, 6, 0), DiskMeta(MAGIC_KEY, 9, 3)}

\* Lengths of an existing file
FileLengths == {0, CREATE_PAGES * OS_PAGE_SIZE, (CREATE_PAGES + 1) * OS_PAGE_SIZE}

\* A variant bug: a missing file is created whatever auto_create says.
open_match_always_create(exists, auto_create) ==
    IF exists THEN "init" ELSE "create"

\* The match of Db::open on (data_file_path.exists(), settings.auto_create)
open_match(exists, auto_create) ==
    IF ~exists /\ ~auto_create THEN "notfound"
    ELSE IF ~exists /\ auto_create THEN "create"
    ELSE "init"

DbIdle ==
    /\ fexists = FALSE
    /\ flen = 0
    /\ fmeta = [i \in 0..1 |-> ZeroMeta]
    /\ lockHolder = 0
    /\ pc = [p \in Procs |-> "off"]
    /\ settings = [p \in Procs |-> [auto_create |-> TRUE, read_only |-> FALSE]]
    /\ sawExists = [p \in Procs |-> FALSE]
    /\ mapped = [p \in Procs |-> "none"]
    /\ result = [p \in Procs |-> "none"]
    /\ selected = [p \in Procs |-> -1]

\* No process has called Db::open yet
ProcsIdle ==
    /\ lockHolder = 0
    /\ pc = [p \in Procs |-> "idle"]
    /\ settings = [p \in Procs |-> [auto_create |-> TRUE, read_only |-> FALSE]]
    /\ sawExists = [p \in Procs |-> FALSE]
    /\ mapped = [p \in Procs |-> "none"]
    /\ result = [p \in Procs |-> "none"]
    /\ selected = [p \in Procs |-> -1]

DbInit ==
    /\ \/ /\ fexists = FALSE
          /\ flen = 0
          /\ fmeta = [i \in 0..1 |-> ZeroMeta]
       \/ /\ fexists = TRUE
          /\ flen = 0
          /\ fmeta = [i \in 0..1 |-> ZeroMeta]
       \/ /\ fexists = TRUE
          /\ flen \in FileLengths \ {0}
          /\ fmeta \in [0..1 -> DiskMetas]
    /\ ProcsIdle

\* Db::open is called with some Settings
OpenCall(p) ==
    /\ pc[p] = "idle"
    /\ \E ac \in BOOLEAN, ro \in BOOLEAN :
          settings' = [settings EXCEPT ![p] = [auto_create |-> ac, read_only |-> ro]]
    /\ pc' = [pc EXCEPT ![p] = "open"]
    /\ UNCHANGED <<fileVars, lockHolder, sawExists, mapped, result, selected, notDb>>

\* Db::open: the match on (exists(), auto_create)
OpenMatch(p) ==
    /\ pc[p] = "open"
    /\ sawExists' = [sawExists EXCEPT ![p] = fexists]
    /\ LET arm == open_match(fexists, settings[p].auto_create)
       IN  /\ pc' = [pc EXCEPT ![p] = CASE arm = "notfound" -> "done"
                                         [] arm = "create" -> "c_open"
                                         [] OTHER -> "i_open"]
           /\ result' = [result EXCEPT ![p] = IF arm = "notfound" THEN "DatabaseNotFound"
                                              ELSE @]
    /\ UNCHANGED <<fileVars, lockHolder, settings, mapped, selected, notDb>>

\* Db::create: OpenOptions read, write, create; the file is created when
\* missing and opened as it is otherwise
CreateOpenFile(p) ==
    /\ pc[p] = "c_open"
    /\ fexists' = TRUE
    /\ flen' = IF fexists THEN flen ELSE 0
    /\ fmeta' = IF fexists THEN fmeta ELSE [i \in 0..1 |-> ZeroMeta]
    /\ pc' = [pc EXCEPT ![p] = "c_setlen"]
    /\ UNCHANGED <<lockHolder, settings, sawExists, mapped, result, selected, notDb>>

\* Db::create: data_file.set_len(OS_PAGE_SIZE as u64 * 4); a file that grows
\* is filled with zeros
CreateSetLen(p) ==
    /\ pc[p] = "c_setlen"
    /\ flen' = CREATE_PAGES * OS_PAGE_SIZE
    /\ fmeta' = IF flen < 2 * OS_PAGE_SIZE THEN [i \in 0..1 |-> ZeroMeta] ELSE fmeta
    /\ pc' = [pc EXCEPT ![p] = "c_mmap"]
    /\ UNCHANGED <<fexists, lockHolder, settings, sawExists, mapped, result, selected, notDb>>

\* Db::create: Mmap::open(&data_file, Protection::ReadWrite)
CreateMmap(p) ==
    /\ pc[p] = "c_mmap"
    /\ mapped' = [mapped EXCEPT ![p] = "rw"]
    /\ pc' = [pc EXCEPT ![p] = "c_meta0"]
    /\ UNCHANGED <<fileVars, lockHolder, settings, sawExists, result, selected, notDb>>

\* Db::create: *meta0 = Meta::default(), at byte offset 0
CreateWriteMeta0(p) ==
    /\ pc[p] = "c_meta0"
    /\ fmeta' = [fmeta EXCEPT ![0] = MetaDefault]
    /\ pc' = [pc EXCEPT ![p] = "c_meta1"]
    /\ UNCHANGED <<fexists, flen, lockHolder, settings, sawExists, mapped, result, selected, notDb>>

\* Db::create: *meta1 = Meta::default(), at byte offset OS_PAGE_SIZE
CreateWriteMeta1(p) ==
    /\ pc[p] = "c_meta1"
    /\ fmeta' = [fmeta EXCEPT ![1] = MetaDefault]
    /\ pc' = [pc EXCEPT ![p] = "c_ret"]
    /\ UNCHANGED <<fexists, flen, lockHolder, settings, sawExists, mapped, result, selected, notDb>>

\* Db::create returns Ok(()); the map and the file are dropped
CreateReturn(p) ==
    /\ pc[p] = "c_ret"
    /\ mapped' = [mapped EXCEPT ![p] = "none"]
    /\ result' = [result EXCEPT ![p] = "Ok"]
    /\ pc' = [pc EXCEPT ![p] = "done"]
    /\ UNCHANGED <<fileVars, lockHolder, settings, sawExists, selected, notDb>>

\* Db::init: OpenOptions read, write(!read_only), create(!read_only); a
\* missing file is created unless read_only, and then the open fails
InitOpenFile(p) ==
    /\ pc[p] = "i_open"
    /\ IF ~fexists /\ settings[p].read_only
       THEN /\ result' = [result EXCEPT ![p] = "Io"]
            /\ pc' = [pc EXCEPT ![p] = "done"]
            /\ UNCHANGED fileVars
       ELSE /\ fexists' = TRUE
            /\ flen' = IF fexists THEN flen ELSE 0
            /\ fmeta' = IF fexists THEN fmeta ELSE [i \in 0..1 |-> ZeroMeta]
            /\ pc' = [pc EXCEPT ![p] = "i_mmap"]
            /\ UNCHANGED result
    /\ UNCHANGED <<lockHolder, settings, sawExists, mapped, selected, notDb>>

\* Db::init: Mmap::open(&data_file, protection_mode); an empty file cannot
\* be mapped and the error is returned
InitMmap(p) ==
    /\ pc[p] = "i_mmap"
    /\ IF flen = 0
       THEN /\ result' = [result EXCEPT ![p] = "Io"]
            /\ pc' = [pc EXCEPT ![p] = "done"]
            /\ UNCHANGED mapped
       ELSE /\ mapped' = [mapped EXCEPT ![p] = IF settings[p].read_only THEN "ro" ELSE "rw"]
            /\ pc' = [pc EXCEPT ![p] = "i_lock"]
            /\ UNCHANGED result
    /\ UNCHANGED <<fileVars, lockHolder, settings, sawExists, selected, notDb>>

\* Db::init: if !settings.read_only { data_file.lock_exclusive()?; }  The
\* call blocks while another process holds the lock.
InitLock(p) ==
    /\ pc[p] = "i_lock"
    /\ settings[p].read_only \/ lockHolder = 0
    /\ lockHolder' = IF settings[p].read_only THEN lockHolder ELSE p
    /\ pc' = [pc EXCEPT ![p] = "i_metadata"]
    /\ UNCHANGED <<fileVars, settings, sawExists, mapped, result, selected, notDb>>

\* Db::init: let meta_data = metadata(path)?; if meta_data.len() == 0 {}
InitMetadata(p) ==
    /\ pc[p] = "i_metadata"
    /\ pc' = [pc EXCEPT ![p] = "i_ret"]
    /\ UNCHANGED <<fileVars, lockHolder, settings, sawExists, mapped, result, selected, notDb>>

\* Db::init returns Ok(()); data_mmap and data_file are dropped, and closing
\* the file releases the lock taken on it
InitReturn(p) ==
    /\ pc[p] = "i_ret"
    /\ lockHolder' = IF lockHolder = p THEN 0 ELSE lockHolder
    /\ mapped' = [mapped EXCEPT ![p] = "none"]
    /\ result' = [result EXCEPT ![p] = "Ok"]
    /\ pc' = [pc EXCEPT ![p] = "done"]
    /\ UNCHANGED <<fileVars, settings, sawExists, selected, notDb>>

DbNext ==
    \E p \in Procs :
        \/ OpenCall(p)
        \/ OpenMatch(p)
        \/ CreateOpenFile(p)
        \/ CreateSetLen(p)
        \/ CreateMmap(p)
        \/ CreateWriteMeta0(p)
        \/ CreateWriteMeta1(p)
        \/ CreateReturn(p)
        \/ InitOpenFile(p)
        \/ InitMmap(p)
        \/ InitLock(p)
        \/ InitMetadata(p)
        \/ InitReturn(p)

----------------------------------------------------------------------------
(* The commit of a write transaction.  The repository holds no commit: its  *)
(* steps are those of spec section 4.4 (write the new Meta to the inactive  *)
(* slot, recompute the checksum over the new field values, then persist),   *)
(* with a crash possible between any two of them.  After a crash the        *)
(* database is opened again by Db::open.                                    *)

\* Commits a run completes before the one that may crash
MaxCommits == 1

\* The fields of a Meta other than the checksum, in declaration order, as
\* (offset, length)
MetaFields ==
    <<<<0, 4>>, <<4, 4>>, <<8, 4>>, <<12, 4>>, <<24, 8>>, <<32, 1>>,
      <<36, 4>>, <<40, 4>>, <<44, 4>>>>

\* Slot s with the first n fields of the Meta w written over it
WriteFields(old, w, n) ==
    [o \in 0..(META_SIZE - 1) |->
        IF \E k \in 1..n : o >= MetaFields[k][1] /\ o < MetaFields[k][1] + MetaFields[k][2]
        THEN w[o] ELSE old[o]]

\* The slot active at begin: the one that validates and has the strictly
\* higher transaction_id (slot 0 when both validate with equal ids);
\* -1 when neither validates
ActiveSlot(metas) ==
    LET v0 == Validates(metas[0])
        v1 == Validates(metas[1])
    IN  IF v0 /\ v1
        THEN (IF U64Gt(MetaTransactionId(metas[1]), MetaTransactionId(metas[0])) THEN 1 ELSE 0)
        ELSE IF v0 THEN 0
        ELSE IF v1 THEN 1
        ELSE -1

\* The Meta a commit writes: the next transaction id, a new root
NextMeta(m, root) ==
    MkMeta(U32(MAGIC_KEY), U32(VERSION), U32(0), U32(OS_PAGE_SIZE), U64Zero,
           FromInt(ToInt(MetaTransactionId(m)) + 1), 1, U32(root), U32(0), U32(4))

CommitIdle ==
    /\ kpc = "off"
    /\ kactive = 0
    /\ kprev = ZeroMeta
    /\ knew = ZeroMeta
    /\ kcount = 0
    /\ kdone = 0

\* A database file as Db::create leaves it, or one with two valid Metas
CommitInit ==
    /\ fexists = TRUE
    /\ flen = CREATE_PAGES * OS_PAGE_SIZE
    /\ fmeta \in [0..1 -> {MetaDefault, DiskMeta(MAGIC_KEY, 5, 0), DiskMeta(MAGIC_KEY, 7, 0)}]
    /\ ProcsIdle
    /\ kpc = "idle"
    /\ kactive = 0
    /\ kprev = ZeroMeta
    /\ knew = ZeroMeta
    /\ kcount = 0
    /\ kdone = 0

\* begin of the commit: the slot not selected at begin is the one written
CommitBegin ==
    /\ kpc = "idle"
    /\ kdone <= MaxCommits
    /\ ActiveSlot(fmeta) # -1
    /\ kactive' = ActiveSlot(fmeta)
    /\ kprev' = fmeta[ActiveSlot(fmeta)]
    /\ \E root \in {2, 3} : knew' = NextMeta(fmeta[ActiveSlot(fmeta)], root)
    /\ kcount' = 0
    /\ kpc' = "writing"
    /\ UNCHANGED <<kdone, dbVars, notCommit>>

\* one more field of the new Meta reaches the inactive slot
CommitWriteField ==
    /\ kpc = "writing"
    /\ kcount < Len(MetaFields)
    /\ kcount' = kcount + 1
    /\ fmeta' = [fmeta EXCEPT ![1 - kactive] = WriteFields(@, knew, kcount + 1)]
    /\ UNCHANGED <<kpc, kactive, kprev, knew, kdone>>
    /\ UNCHANGED <<fexists, flen, lockHolder, pc, settings, sawExists, mapped, result, selected, notCommit>>

\* the checksum over the new field values is written last
CommitWriteChecksum ==
    /\ kpc = "writing"
    /\ kcount = Len(MetaFields)
    /\ fmeta' = [fmeta EXCEPT ![1 - kactive] = WithChecksum(@, HashRemaining(DbHashKey, knew))]
    /\ kpc' = "checksummed"
    /\ UNCHANGED <<kactive, kprev, knew, kcount, kdone>>
    /\ UNCHANGED <<fexists, flen, lockHolder, pc, settings, sawExists, mapped, result, selected, notCommit>>

\* flush: the commit is durable
CommitFlush ==
    /\ kpc = "checksummed"
    /\ kpc' = "idle"
    /\ kdone' = kdone + 1
    /\ UNCHANGED <<kactive, kprev, knew, kcount, dbVars, notCommit>>

\* the process dies after some fields reached the slot, before the checksum
Crash ==
    /\ kpc = "writing"
    /\ kcount >= 1
    /\ kpc' = "crashed"
    /\ UNCHANGED <<kactive, kprev, knew, kcount, kdone, dbVars, notCommit>>

\* after the crash the database is opened again
Reopen(p) ==
    /\ kpc = "crashed"
    /\ OpenCall(p)
    /\ UNCHANGED commitVars

CommitNext ==
    \/ CommitBegin
    \/ CommitWriteField
    \/ CommitWriteChecksum
    \/ CommitFlush
    \/ Crash
    \/ \E p \in Procs :
          \/ Reopen(p)
          \/ OpenMatch(p)
          \/ InitOpenFile(p)
          \/ InitMmap(p)
          \/ InitLock(p)
          \/ InitMetadata(p)
          \/ InitReturn(p)

----------------------------------------------------------------------------
(* Transactions and the freelist.  The repository declares the Transaction  *)
(* struct and holds no freelist, begin, commit or rollback: the operations  *)
(* are those of spec sections 4.5, 4.7 and 5.                               *)

\* Largest transaction id a run commits
MaxTx == 2

\* Page ids 2..MaxPageId (0 and 1 are the two Meta copies)
MaxPageId == 5

\* Slots of the reader table
MaxReaders == 2

TxPages == 2..MaxPageId

ReaderSlots == 1..MaxReaders

OpenReaders == {r \in ReaderSlots : treaders[r] # -1}

\* A variant bug: pending pages are released as soon as the freeing
\* transaction has committed, whatever the readers.
CanRelease_ignoring_readers(f) ==
    /\ f >= 1
    /\ f <= ttxid

\* Section 4.5: ids move from pending to reusable only once the oldest
\* active reader's snapshot transaction id exceeds the freeing transaction
\* id; section 3: once the oldest live read transaction has advanced past
\* the commit that deprecated them.
CanRelease(f) ==
    /\ f >= 1
    /\ f <= ttxid
    /\ \A r \in OpenReaders : treaders[r] > f

TxIdle ==
    /\ ttxid = 0
    /\ tpages = [p \in TxPages |-> "fresh"]
    /\ tfreedBy = [p \in TxPages |-> 0]
    /\ treaders = [r \in ReaderSlots |-> -1]
    /\ twriter = 0
    /\ talloc = {}
    /\ tfresh = {}
    /\ tfreed = {}
    /\ tlast = {}
    /\ terr = "off"

\* A new database: pages 2 and 3 in use, the rest past the high-water mark
TxInit ==
    /\ ttxid = 0
    /\ tpages = [p \in TxPages |-> IF p <= 3 THEN "used" ELSE "fresh"]
    /\ tfreedBy = [p \in TxPages |-> 0]
    /\ treaders = [r \in ReaderSlots |-> -1]
    /\ twriter = 0
    /\ talloc = {}
    /\ tfresh = {}
    /\ tfreed = {}
    /\ tlast = {}
    /\ terr = "none"

\* begin(read-only): registers the snapshot id in the reader table
BeginRead(r) ==
    /\ treaders[r] = -1
    /\ treaders' = [treaders EXCEPT ![r] = ttxid]
    /\ terr' = "none"
    /\ UNCHANGED <<ttxid, tpages, tfreedBy, twriter, talloc, tfresh, tfreed, tlast, notTx>>

\* begin(read-only) with the reader table exhausted
BeginReadFull ==
    /\ OpenReaders = ReaderSlots
    /\ terr' = "ReaderTableFull"
    /\ UNCHANGED <<ttxid, tpages, tfreedBy, treaders, twriter, talloc, tfresh, tfreed, tlast, notTx>>

\* commit or rollback of a read transaction
CloseRead(r) ==
    /\ treaders[r] # -1
    /\ treaders' = [treaders EXCEPT ![r] = -1]
    /\ terr' = "none"
    /\ UNCHANGED <<ttxid, tpages, tfreedBy, twriter, talloc, tfresh, tfreed, tlast, notTx>>

\* begin(writable): needs the single writer slot
BeginWrite ==
    /\ ttxid < MaxTx
    /\ IF twriter # 0
       THEN /\ terr' = "TxInProgress"
            /\ UNCHANGED twriter
       ELSE /\ terr' = "none"
            /\ twriter' = ttxid + 1
    /\ UNCHANGED <<ttxid, tpages, tfreedBy, treaders, talloc, tfresh, tfreed, tlast, notTx>>

\* The runs of n contiguous reusable ids
FreeRuns(n) == {s \in TxPages : \A i \in 0..(n - 1) : s + i \in TxPages /\ tpages[s + i] = "free"}

\* The first id past the high-water mark
HighWater ==
    IF \E p \in TxPages : tpages[p] = "fresh"
    THEN CHOOSE p \in TxPages : tpages[p] = "fresh" /\ \A q \in TxPages : tpages[q] = "fresh" => p <= q
    ELSE MaxPageId + 1

\* allocate(n): n contiguous ids taken from the reusable set, or the file
\* extended
Allocate(n) ==
    /\ twriter # 0
    /\ IF FreeRuns(n) # {}
       THEN \E s \in FreeRuns(n) :
               /\ tlast' = s..(s + n - 1)
               /\ talloc' = talloc \cup (s..(s + n - 1))
               /\ tpages' = [p \in TxPages |-> IF p \in s..(s + n - 1) THEN "used" ELSE tpages[p]]
               /\ UNCHANGED tfresh
       ELSE /\ HighWater + n - 1 <= MaxPageId
            /\ tlast' = HighWater..(HighWater + n - 1)
            /\ tfresh' = tfresh \cup (HighWater..(HighWater + n - 1))
            /\ tpages' = [p \in TxPages |-> IF p \in HighWater..(HighWater + n - 1) THEN "used" ELSE tpages[p]]
            /\ UNCHANGED talloc
    /\ terr' = "none"
    /\ UNCHANGED <<ttxid, tfreedBy, treaders, twriter, tfreed, notTx>>

\* free(id): the id joins the pending queue keyed by the freeing transaction
Free(p) ==
    /\ twriter # 0
    /\ tpages[p] = "used"
    /\ p \notin talloc \cup tfresh
    /\ tpages' = [tpages EXCEPT ![p] = "pending"]
    /\ tfreedBy' = [tfreedBy EXCEPT ![p] = twriter]
    /\ tfreed' = tfreed \cup {p}
    /\ terr' = "none"
    /\ UNCHANGED <<ttxid, treaders, twriter, talloc, tfresh, tlast, notTx>>

\* commit(): the new Meta carries the writer's id; the writer slot is freed
CommitWrite ==
    /\ twriter # 0
    /\ ttxid' = twriter
    /\ twriter' = 0
    /\ talloc' = {}
    /\ tfresh' = {}
    /\ tfreed' = {}
    /\ terr' = "none"
    /\ UNCHANGED <<tpages, tfreedBy, treaders, tlast, notTx>>

\* rollback(): what the transaction freed is in use again, what it
\* allocated is reusable (or past the high-water mark) again
RollbackWrite ==
    /\ twriter # 0
    /\ tpages' = [p \in TxPages |-> IF p \in tfreed THEN "used"
                                    ELSE IF p \in talloc THEN "free"
                                    ELSE IF p \in tfresh THEN "fresh"
                                    ELSE tpages[p]]
    /\ tfreedBy' = [p \in TxPages |-> IF p \in tfreed THEN 0 ELSE tfreedBy[p]]
    /\ twriter' = 0
    /\ talloc' = {}
    /\ tfresh' = {}
    /\ tfreed' = {}
    /\ tlast' = {}
    /\ terr' = "none"
    /\ UNCHANGED <<ttxid, treaders, notTx>>

\* The pending ids of transaction f become reusable
Release(f) ==
    /\ CanRelease(f)
    /\ \E p \in TxPages : tpages[p] = "pending" /\ tfreedBy[p] = f
    /\ tpages' = [p \in TxPages |-> IF tpages[p] = "pending" /\ tfreedBy[p] = f THEN "free"
                                    ELSE tpages[p]]
    /\ terr' = "none"
    /\ UNCHANGED <<ttxid, tfreedBy, treaders, twriter, talloc, tfresh, tfreed, tlast, notTx>>

TxNext ==
    \/ \E r \in ReaderSlots : BeginRead(r)
    \/ BeginReadFull
    \/ \E r \in ReaderSlots : CloseRead(r)
    \/ BeginWrite
    \/ \E n \in 1..2 : Allocate(n)
    \/ \E p \in TxPages : Free(p)
    \/ CommitWrite
    \/ RollbackWrite
    \/ \E f \in 1..MaxTx : Release(f)

----------------------------------------------------------------------------
(* db.rs: PageInfo::overflow_page and PageIndex::new.  The page array maps  *)
(* IndexPages pages; the page that begins at the end of the mapping passes  *)
(* check_bounds, so its fields are whatever lies behind the mapping, or the *)
(* read faults.                                                             *)

\* Pages of the mapping (ids 0..IndexPages - 1)
IndexPages == 3

\* pages.len() is counted up to this many pushes
MaxVisits == 5

PI_OFFSET_OVERFLOW == 32

PI_OFFSET_LENGTH == 64

PI_KEYS_PER_PAGE == 124

\* Ids whose page can be read: those of the mapping and the one at its end
IndexIds == 0..IndexPages

\* u32 addition: the wrapped sum and whether it overflowed
U32Add(a, b) ==
    LET c1 == (a[1] + b[1]) \div 256
        c2 == (a[2] + b[2] + c1) \div 256
        c3 == (a[3] + b[3] + c2) \div 256
        c4 == (a[4] + b[4] + c3) \div 256
    IN  [sum |-> <<(a[1] + b[1]) % 256, (a[2] + b[2] + c1) % 256,
                   (a[3] + b[3] + c2) % 256, (a[4] + b[4] + c3) % 256>>,
         overflow |-> c4 = 1]

\* Values of a page's length field: 0 and 2^31 (the sums of a chain that
\* runs in a circle then take few values)
LengthValues == {U32(0), <<0, 0, 0, 128>>}

\* A variant bug: a non-zero field is taken for a count of following pages,
\* and the next page is the one that follows physically.
overflow_page_following(ov, q) == IF ov[q] > 0 THEN q + 1 ELSE -1

\* PageInfo::overflow_page: Some(x) when the u32 at PI_OFFSET_OVERFLOW is
\* x > 0, None (here -1) otherwise
overflow_page(ov, q) == IF ov[q] > 0 THEN ov[q] ELSE -1

\* PageIndex::length
PageIndex_length(len, q) == len[q]

IndexIdle ==
    /\ xov = [q \in IndexIds |-> 0]
    /\ xlen = [q \in IndexIds |-> U32(0)]
    /\ xstart = 0
    /\ xbuild = "release"
    /\ xcur = 0
    /\ xvisited = {}
    /\ xcount = 0
    /\ xdup = FALSE
    /\ xlength = U32(0)
    /\ xcapacity = 0
    /\ xpc = "off"

\* PageIndex::new(page, pa) is entered with the PageInfo of a mapped page
IndexInit ==
    /\ xov \in [IndexIds -> 0..(IndexPages + 1)]
    /\ xlen \in [IndexIds -> LengthValues]
    /\ xstart \in 0..(IndexPages - 1)
    /\ xbuild \in {"debug", "release"}
    /\ xcur = xstart
    /\ xvisited = {}
    /\ xcount = 0
    /\ xdup = FALSE
    /\ xlength = U32(0)
    /\ xcapacity = 0
    /\ xpc = "loop"

\* One iteration of the loop of PageIndex::new: push the page, add its
\* length, then follow overflow_page() through get_page_info or break,
\* compute the capacity and return
IndexVisit ==
    /\ xpc = "loop"
    /\ xvisited' = xvisited \cup {xcur}
    /\ xdup' = (xdup \/ xcur \in xvisited)
    /\ xcount' = IF xcount < MaxVisits THEN xcount + 1 ELSE xcount
    /\ LET add == U32Add(xlength, PageIndex_length(xlen, xcur))
           next == overflow_page(xov, xcur)
       IN  \/ /\ xcur = IndexPages
              /\ xpc' = "crashed"
              /\ UNCHANGED <<xlength, xcur, xcapacity>>
           \/ /\ add.overflow /\ xbuild = "debug"
              /\ xpc' = "panicked"
              /\ UNCHANGED <<xlength, xcur, xcapacity>>
           \/ /\ ~(add.overflow /\ xbuild = "debug")
              /\ xlength' = add.sum
              /\ IF next = -1
                 THEN /\ xpc' = "returned"
                      /\ xcapacity' = xcount' * PI_KEYS_PER_PAGE
                      /\ UNCHANGED xcur
                 ELSE IF get_page_info(IndexPages * OS_PAGE_SIZE, next).kind = "panic"
                 THEN /\ xpc' = "panicked"
                      /\ UNCHANGED <<xcur, xcapacity>>
                 ELSE /\ xpc' = "loop"
                      /\ xcur' = next
                      /\ UNCHANGED xcapacity
    /\ UNCHANGED <<xov, xlen, xstart, xbuild, notIndex>>

IndexNext == IndexVisit

----------------------------------------------------------------------------
(* enc.rs: values encoded back to back, each at the offset obtained by      *)
(* adding the values the encoder returned before, then decoded at those     *)
(* offsets (tests::can_encode_and_decode_series_of_numbers_varint).         *)

\* Values encoded in a row
SeriesCount == 2

\* Bytes of the buffer
SeriesLen == 32

SeriesValues == {FromInt(1), FromInt(200), FromInt(300), FromInt(70000), Bit(32), BitMinus(56)}

\* The sum of the first n entries of a sequence of integers
RECURSIVE SumTo(_, _)
SumTo(q, n) == IF n = 0 THEN 0 ELSE q[n] + SumTo(q, n - 1)

\* The MemLen bytes behind the pointer p.offset(base)
SeriesWindow(m, base) ==
    [o \in 0..(MemLen - 1) |-> IF base + o < SeriesLen THEN m[base + o] ELSE 0]

\* The codec's encoder applied to a window
SeriesEncoder(enc, w, v) ==
    CASE enc = "varint" -> encode_varint_u64(w, v)
      [] enc = "leb64" -> encode_leb_u64(w, v)
      [] OTHER -> encode_leb_u32(w, v)

\* The codec's decoder applied to a window
SeriesDecoder(enc, w) ==
    CASE enc = "varint" -> decode_varint_u64(w).val
      [] enc = "leb64" -> decode_leb_u64(w).val
      [] OTHER -> decode_leb_u32(w).val

SeriesIdle ==
    /\ senc = "varint"
    /\ sv = <<>>
    /\ smem = [o \in 0..(SeriesLen - 1) |-> 0]
    /\ srets = <<>>
    /\ sout = <<>>
    /\ spc = "off"

SeriesInit ==
    /\ senc \in {"varint", "leb64", "leb32"}
    /\ sv \in [1..SeriesCount -> SeriesValues]
    /\ senc = "leb32" => \A i \in 1..SeriesCount : FitsInt(sv[i])
    /\ smem = [o \in 0..(SeriesLen - 1) |-> 0]
    /\ srets = <<>>
    /\ sout = <<>>
    /\ spc = "encode"

\* The next value is encoded at the sum of the values returned so far
SeriesEncode ==
    /\ spc = "encode"
    /\ LET base == SumTo(srets, Len(srets))
           r == SeriesEncoder(senc, SeriesWindow(smem, base), sv[Len(srets) + 1])
       IN  /\ smem' = [o \in 0..(SeriesLen - 1) |->
                          IF o >= base /\ (o - base) \in r.written
                          THEN r.mem[o - base] ELSE smem[o]]
           /\ srets' = Append(srets, r.ret)
    /\ spc' = IF Len(srets) + 1 = SeriesCount THEN "decode" ELSE "encode"
    /\ UNCHANGED <<senc, sv, sout, notSeries>>

\* The next value is decoded at the offset it was encoded at
SeriesDecode ==
    /\ spc = "decode"
    /\ LET base == SumTo(srets, Len(sout))
       IN  sout' = Append(sout, SeriesDecoder(senc, SeriesWindow(smem, base)))
    /\ spc' = IF Len(sout) + 1 = SeriesCount THEN "done" ELSE "decode"
    /\ UNCHANGED <<senc, sv, smem, srets, notSeries>>

SeriesNext == SeriesEncode \/ SeriesDecode

----------------------------------------------------------------------------
(* mmap_array.rs: JumpTable::new, set and get *)

\* Largest capacity given to JumpTable::new
MaxCapacity == 6

MAGIC_KEY_SIZE == 32

VERSION_SIZE == 32

HEADER_SIZE == MAGIC_KEY_SIZE + VERSION_SIZE

\* mem::size_of::<u64>()
SIZE_OF_U64 == 8

\* JumpTable::calculate_length
calculate_length(capacity) == HEADER_SIZE + capacity * SIZE_OF_U64

\* The guard of set and get: if self.length < index
jump_guard(length, index) == length < index

\* The byte offset set and get use for an index
jump_offset(index) == 64 * index + HEADER_SIZE

\* What an 8-byte access at the offset does: inside the mapping it is
\* performed; outside it the behaviour is undefined, the access faults or
\* reaches whatever memory lies there
JumpAccess(offset) ==
    IF offset + SIZE_OF_U64 <= jfilelen THEN {"access"} ELSE {"fault", "wild"}

JumpIdle ==
    /\ jcap = 0
    /\ jfilelen = 0
    /\ jres = [op |-> "none", index |-> 0, kind |-> "none", offset |-> 0]
    /\ jpc = "off"

JumpInit ==
    /\ jcap \in 0..MaxCapacity
    /\ jfilelen = 0
    /\ jres = [op |-> "none", index |-> 0, kind |-> "none", offset |-> 0]
    /\ jpc = "new"

\* JumpTable::new on a new path: the file gets calculate_length(capacity)
\* bytes and is mapped; the field length holds the capacity
JumpNew ==
    /\ jpc = "new"
    /\ jfilelen' = calculate_length(jcap)
    /\ jpc' = "ready"
    /\ UNCHANGED <<jcap, jres, notJump>>

\* JumpTable::set(index, value)
JumpSet(index) ==
    /\ jpc = "ready"
    /\ IF jump_guard(jcap, index)
       THEN \E k \in JumpAccess(jump_offset(index)) :
               jres' = [op |-> "set", index |-> index, kind |-> k,
                        offset |-> jump_offset(index)]
       ELSE jres' = [op |-> "set", index |-> index, kind |-> "panic", offset |-> 0]
    /\ UNCHANGED <<jcap, jfilelen, jpc, notJump>>

\* JumpTable::get(index)
JumpGet(index) ==
    /\ jpc = "ready"
    /\ IF jump_guard(jcap, index)
       THEN \E k \in JumpAccess(jump_offset(index)) :
               jres' = [op |-> "get", index |-> index, kind |-> k,
                        offset |-> jump_offset(index)]
       ELSE jres' = [op |-> "get", index |-> index, kind |-> "panic", offset |-> 0]
    /\ UNCHANGED <<jcap, jfilelen, jpc, notJump>>

JumpNext ==
    \/ JumpNew
    \/ \E index \in 0..(MaxCapacity + 2) : JumpSet(index)
    \/ \E index \in 0..(MaxCapacity + 2) : JumpGet(index)

----------------------------------------------------------------------------
(* Specifications *)

InitCodec == CodecInit /\ MetaIdle /\ PageIdle /\ DbIdle /\ CommitIdle /\ TxIdle /\ IndexIdle /\ SeriesIdle /\ JumpIdle

SpecCodec == InitCodec /\ [][CodecNext]_vars

InitMeta == MetaInit /\ CodecIdle /\ PageIdle /\ DbIdle /\ CommitIdle /\ TxIdle /\ IndexIdle /\ SeriesIdle /\ JumpIdle

SpecMeta == InitMeta /\ [][MetaNext]_vars

InitPage == PageInit /\ CodecIdle /\ MetaIdle /\ DbIdle /\ CommitIdle /\ TxIdle /\ IndexIdle /\ SeriesIdle /\ JumpIdle

SpecPage == InitPage /\ [][PageNext]_vars

InitDb == DbInit /\ CodecIdle /\ MetaIdle /\ PageIdle /\ CommitIdle /\ TxIdle /\ IndexIdle /\ SeriesIdle /\ JumpIdle

SpecDb == InitDb /\ [][DbNext]_vars

InitCommit == CommitInit /\ CodecIdle /\ MetaIdle /\ PageIdle /\ TxIdle /\ IndexIdle /\ SeriesIdle /\ JumpIdle

SpecCommit == InitCommit /\ [][CommitNext]_vars

InitTx == TxInit /\ CodecIdle /\ MetaIdle /\ PageIdle /\ DbIdle /\ CommitIdle /\ IndexIdle /\ SeriesIdle /\ JumpIdle

SpecTx == InitTx /\ [][TxNext]_vars

InitIndex ==
    /\ IndexInit /\ CodecIdle /\ MetaIdle /\ PageIdle /\ DbIdle /\ CommitIdle /\ TxIdle
    /\ SeriesIdle /\ JumpIdle

SpecIndex == InitIndex /\ [][IndexNext]_vars

InitSeries ==
    /\ SeriesInit /\ CodecIdle /\ MetaIdle /\ PageIdle /\ DbIdle /\ CommitIdle /\ TxIdle
    /\ IndexIdle /\ JumpIdle

InitJump ==
    /\ JumpInit /\ CodecIdle /\ MetaIdle /\ PageIdle /\ DbIdle /\ CommitIdle /\ TxIdle
    /\ IndexIdle /\ SeriesIdle

SpecJump == InitJump /\ [][JumpNext]_vars

SpecSeries == InitSeries /\ [][SeriesNext]_vars

\* The loop of PageIndex::new runs on while it can
SpecIndexLive == InitIndex /\ [][IndexNext]_vars /\ WF_vars(IndexNext)

----------------------------------------------------------------------------
(* C1: for every v <= 2^56 - 1, decoding the bytes that encode_varint_u64   *)
(* wrote into a zeroed buffer returns exactly v.                            *)
C1_VarintRoundTrip ==
    (cpc = "decoded" /\ InVarintRange(cv)) => cout = cv

\* A 7-byte value (selector 254) has been encoded and decoded
C1_Witness ==
    /\ cpc = "decoded"
    /\ InVarintRange(cv)
    /\ cv[7] # 0
    /\ cmem[0] = 254
    /\ cout = cv

----------------------------------------------------------------------------
MagicOk(m) == MetaMagic(m) = U32(MAGIC_KEY)

VersionOk(m) == MetaVersion(m) = U32(VERSION)

BoolValid(m) == MetaLittleEndian(m) \in {0, 1}

\* The checksum is non-zero and is not what the record hashes to
ChecksumBad(key, m) ==
    /\ MetaChecksum(m) # U64Zero
    /\ MetaChecksum(m) # hash(key, m, MetaLittleEndian(m))

C2_ResultTable ==
    (mpc \in {"validated", "revalidated"} /\ BoolValid(meta)) =>
        /\ ~MagicOk(meta) => vres = "DatabaseInvalid"
        /\ (MagicOk(meta) /\ ~VersionOk(meta)) => vres = "DatabaseVersionMismatch"
        /\ (MagicOk(meta) /\ VersionOk(meta) /\ ChecksumBad(hkey, meta))
              => vres = "ChecksumError"
        /\ (MagicOk(meta) /\ VersionOk(meta) /\ ~ChecksumBad(hkey, meta))
              => vres = "Ok"
        /\ (MagicOk(meta) /\ VersionOk(meta) /\ MetaChecksum(meta) = U64Zero)
              => vres = "Ok"

C2_ValidateStep == mpc \in {"fresh", "mutated"} /\ mpc' \in {"validated", "revalidated"}

(* C2: validate() returns DatabaseInvalid whenever magic differs from the   *)
(* stamp, otherwise DatabaseVersionMismatch whenever version differs,       *)
(* otherwise ChecksumError whenever the checksum is non-zero and differs    *)
(* from the recomputed hash, and Ok in every remaining case (so for every   *)
(* Meta with correct magic and version and checksum 0); the call leaves     *)
(* the Meta as it was.                                                      *)
C2_ValidateOutcome ==
    /\ []C2_ResultTable
    /\ [][C2_ValidateStep => meta' = meta]_vars

\* validate() has returned ChecksumError for a Meta with the right magic and
\* version
C2_Witness ==
    /\ mpc = "validated"
    /\ MagicOk(meta)
    /\ VersionOk(meta)
    /\ ChecksumBad(hkey, meta)
    /\ vres = "ChecksumError"

----------------------------------------------------------------------------
(* C6: a Meta with correct magic and version whose checksum field holds the *)
(* non-zero hash of its remaining fields (every field but the checksum)     *)
(* passes validate().                                                       *)
C6_ChecksumOverOtherFields ==
    (/\ mpc = "validated"
     /\ MagicOk(meta)
     /\ VersionOk(meta)
     /\ MetaChecksum(meta) = HashRemaining(hkey, meta)
     /\ MetaChecksum(meta) # U64Zero)
    => vres = "Ok"

----------------------------------------------------------------------------
\* The Meta before the change validated with a non-zero checksum
C7_Case ==
    /\ mpc = "revalidated"
    /\ BoolValid(morig)
    /\ validate(hkey, morig, MetaLittleEndian(morig)) = "Ok"
    /\ MetaChecksum(morig) # U64Zero
    /\ moff \in 0..(META_SIZE - 1)
    /\ meta[moff] # morig[moff]
    /\ \A o \in 0..(META_SIZE - 1) : o # moff => meta[o] = morig[o]

(* C7 as stated: for a Meta that validates with a non-zero checksum,        *)
(* changing any single byte of its stored record makes validate() fail      *)
(* with ChecksumError.                                                      *)
C7_AnyByteChecksumError == C7_Case => vres = "ChecksumError"

(* C7 as amended: changing one byte makes validate() fail with              *)
(* DatabaseInvalid when the byte is in magic, with DatabaseVersionMismatch  *)
(* when it is in version; a changed padding byte (offsets 33..35) leaves    *)
(* validate() returning Ok; a changed byte of any other field gives         *)
(* ChecksumError unless the changed record's checksum is zero or equals the *)
(* hash of the changed record, and then Ok.                                 *)
C7_ByteChangeOutcome ==
    C7_Case =>
        /\ moff \in 0..3 => vres = "DatabaseInvalid"
        /\ moff \in 4..7 => vres = "DatabaseVersionMismatch"
        /\ moff \in 33..35 => vres = "Ok"
        /\ (moff \in 8..31 \/ moff >= 36) =>
              vres = (IF ChecksumBad(hkey, meta) THEN "ChecksumError" ELSE "Ok")
        /\ moff = 32 => vres \in {"ChecksumError", "Ok"}

\* A byte of magic was changed in a Meta that validated with a non-zero
\* checksum, and validate() answered DatabaseInvalid
C7_Witness ==
    /\ C7_Case
    /\ moff \in 0..3
    /\ vres = "DatabaseInvalid"

----------------------------------------------------------------------------
(* C5: the page accessor fails with a bounds error for every page id whose  *)
(* byte offset id * 4096 plus the page size 4096 exceeds the mapped length  *)
(* (so for every id with id * 4096 >= mapped length, and for id 0 on a      *)
(* mapping shorter than one page); for every other id it yields the page at *)
(* byte offset id * 4096.                                                   *)
C5_OutOfRangeRejected ==
    ppc = "done" =>
        IF pid * OS_PAGE_SIZE + OS_PAGE_SIZE > plen
        THEN pres.kind = "panic"
        ELSE pres = [kind |-> "ptr", offset |-> pid * OS_PAGE_SIZE]

----------------------------------------------------------------------------
\* Process p alone has called Db::open, found the file and returned
OpenedExisting(p) ==
    /\ pc[p] = "done"
    /\ sawExists[p]
    /\ \A q \in Procs \ {p} : pc[q] = "idle"

(* C3: on open of an existing file the engine validates both Meta copies    *)
(* and selects the one that validates and has the strictly higher           *)
(* transaction_id; when only one validates, that one, whichever slot it is  *)
(* in; when neither validates, open fails with DatabaseInvalid.             *)
C3_OpenSelectsValidMeta ==
    \A p \in Procs :
        (OpenedExisting(p) /\ flen >= 2 * OS_PAGE_SIZE) =>
            LET v0 == Validates(fmeta[0])
                v1 == Validates(fmeta[1])
                t0 == MetaTransactionId(fmeta[0])
                t1 == MetaTransactionId(fmeta[1])
            IN  /\ (~v0 /\ ~v1) => result[p] = "DatabaseInvalid"
                /\ (v0 /\ ~v1) => selected[p] = 0
                /\ (~v0 /\ v1) => selected[p] = 1
                /\ (v0 /\ v1 /\ U64Gt(t0, t1)) => selected[p] = 0
                /\ (v0 /\ v1 /\ U64Gt(t1, t0)) => selected[p] = 1

----------------------------------------------------------------------------
\* Process p has the database file open for writing
WriteOpen(p) == mapped[p] = "rw"

(* C9: every successful open with read_only = false, on the create path or  *)
(* on the init path, holds the exclusive advisory lock when it returns, and *)
(* no two processes have the database open in write mode at once.           *)
C9_SingleWriterLock ==
    /\ \A p \in Procs :
          (pc[p] = "done" /\ result[p] = "Ok" /\ ~settings[p].read_only)
              => lockHolder = p
    /\ \A p \in Procs, q \in Procs : (WriteOpen(p) /\ WriteOpen(q)) => p = q

----------------------------------------------------------------------------
C10_ResultState ==
    \A p \in Procs :
        pc[p] = "done" =>
            /\ (~sawExists[p] /\ ~settings[p].auto_create)
                  => result[p] = "DatabaseNotFound"
            /\ (~sawExists[p] /\ settings[p].auto_create) =>
                  /\ result[p] = "Ok"
                  /\ fexists
                  /\ flen = 4 * OS_PAGE_SIZE
                  /\ Validates(fmeta[0])
                  /\ Validates(fmeta[1])

\* A step of process p between the match of Db::open and its return
C10_StepOf(p) == pc[p] \notin {"idle", "open", "done"} /\ pc'[p] # pc[p]

C10_FrameStep ==
    \A p \in Procs :
        /\ (pc[p] = "open" /\ pc'[p] = "done") => UNCHANGED fileVars
        /\ (C10_StepOf(p) /\ sawExists[p]) => UNCHANGED fileVars

----------------------------------------------------------------------------
(* C4: when a crash occurs during commit after fields of the alternate      *)
(* Meta slot have started to be written and before its checksum and flush,  *)
(* the previously active slot is byte for byte as it was and validates,     *)
(* and a subsequent open selects it.                                        *)
C4_CrashKeepsActiveMeta ==
    (kpc = "crashed" /\ kcount >= 1) =>
        /\ fmeta[kactive] = kprev
        /\ Validates(fmeta[kactive])
        /\ \A p \in Procs : (pc[p] = "done" /\ result[p] = "Ok") => selected[p] = kactive

----------------------------------------------------------------------------
\* Page p was freed by a write transaction later than the snapshot of the
\* open reader r
PinnedBy(p, r) == treaders[r] # -1 /\ tfreedBy[p] > treaders[r]

\* No reusable page is pinned by an open reader
C8_NoPinnedPageReusable ==
    \A p \in TxPages, r \in ReaderSlots : PinnedBy(p, r) => tpages[p] # "free"

\* An allocate hands out no page that an open reader pins
C8_AllocateStep ==
    (twriter # 0 /\ tlast' # tlast /\ tlast' # {}) =>
        \A p \in tlast', r \in ReaderSlots : ~PinnedBy(p, r)

(* C8: while a read transaction with snapshot id T is open, no page freed   *)
(* by a write transaction with id > T is handed out by any allocation, and  *)
(* such a page becomes reusable only after that reader has closed.          *)
C8_ReaderPinning ==
    /\ []C8_NoPinnedPageReusable
    /\ [][C8_AllocateStep]_vars

\* A reader with snapshot 0 is still open, a page freed by transaction 1 is
\* pending, and the writer of transaction 2 has been handed other pages
C8_Witness ==
    /\ \E r \in ReaderSlots : treaders[r] = 0
    /\ \E p \in TxPages : tpages[p] = "pending" /\ tfreedBy[p] = 1
    /\ ttxid = 1
    /\ twriter = 2
    /\ tlast # {}
    /\ tlast \subseteq (talloc \cup tfresh)

----------------------------------------------------------------------------
\* A step of a Db::open call of process p made with read_only = true
C11_ReadOnlyStepOf(p) ==
    /\ pc[p] \notin {"idle", "done"}
    /\ pc'[p] # pc[p]
    /\ settings[p].read_only

C11_ReadOnlyStep ==
    \A p \in Procs :
        C11_ReadOnlyStepOf(p) =>
            /\ fexists' = fexists
            /\ flen' = flen
            /\ fmeta' = fmeta
            /\ lockHolder' # p

(* C11: a call of Db::open with read_only = true, whatever auto_create is   *)
(* and whether or not the file exists, does not create, resize or write     *)
(* the database file and does not acquire the exclusive file lock.          *)
C11_ReadOnlyOpenFrame == [][C11_ReadOnlyStep]_vars

----------------------------------------------------------------------------
(* C12: encode_varint_u64(v) fails with an out-of-range error, writing      *)
(* nothing to the buffer, for every v >= 2^56; the largest value it encodes *)
(* is 2^56-1.                                                               *)
C12_OutOfRangeFails ==
    (cpc \in {"encoded", "decoded"} /\ ~InVarintRange(cv)) =>
        /\ cwritten = {}
        /\ cmem = ZeroMem

----------------------------------------------------------------------------
\* The buffer holds exactly the bytes bs (a sequence) at offsets 0.., the
\* encoder wrote those offsets and no others, and the rest is untouched
C13_Wrote(bs) ==
    /\ cwritten = 0..(Len(bs) - 1)
    /\ \A o \in 0..(MemLen - 1) :
          cmem[o] = IF o < Len(bs) THEN bs[o + 1] ELSE 0

\* v as a little-endian integer of n bytes
C13_LittleEndian(v, n) == [i \in 1..n |-> v[i]]

\* The documented table: two bytes up to 12743, then selector 250 with
\* v - 12743 as u16 up to 78278, then 251..255 with v as u24..u56
C13_DocumentedTable(v) ==
    IF U64Lt(v, 201) THEN <<ToInt(v)>>
    ELSE IF U64Lt(v, 12744)
    THEN <<(ToInt(v) - 200) \div 256 + 201, (ToInt(v) - 200) % 256>>
    ELSE IF U64Lt(v, 78279)
    THEN <<250>> \o C13_LittleEndian(FromInt(ToInt(v) - 12743), 2)
    ELSE <<248 + TopDigit(v)>> \o C13_LittleEndian(v, TopDigit(v))

\* The table of the encoder: two bytes up to 12487, then selector 249 with
\* v as u16 up to 65535, then 250..254 with v as u24..u56
C13_EncoderTable(v) ==
    IF U64Lt(v, 201) THEN <<ToInt(v)>>
    ELSE IF U64Lt(v, 12488)
    THEN <<(ToInt(v) - 200) \div 256 + 201, (ToInt(v) - 200) % 256>>
    ELSE <<247 + TopDigit(v)>> \o C13_LittleEndian(v, TopDigit(v))

(* C13 as stated: for every v <= 2^56-1 the bytes written by                *)
(* encode_varint_u64 are exactly those of the documented table (1 byte up   *)
(* to 200, 2 bytes up to 12743, 250 and v-12743 as u16 up to 78278, then    *)
(* 251..255 and v as u24..u56), and never more bytes than that table gives. *)
C13_DocumentedBytes ==
    (cpc \in {"encoded", "decoded"} /\ InVarintRange(cv)) =>
        C13_Wrote(C13_DocumentedTable(cv))

(* C13 as amended: for every v <= 2^56-1 the bytes written are exactly      *)
(* those of the encoder's table: 1 byte equal to v up to 200; 2 bytes       *)
(* (v-200)/256 + 201 and (v-200) mod 256 for 201..12487; 249 followed by v  *)
(* as little-endian u16 for 12488..65535; then 250, 251, 252, 253, 254      *)
(* followed by v as little-endian u24, u32, u40, u48, u56; no other byte    *)
(* of the buffer is written.                                                *)
C13_EncoderBytes ==
    (cpc \in {"encoded", "decoded"} /\ InVarintRange(cv)) =>
        C13_Wrote(C13_EncoderTable(cv))

\* A value of the range where the two tables differ (12488..12743) has been
\* encoded, in three bytes
C13_Witness ==
    /\ cpc = "encoded"
    /\ cv = FromInt(12490)
    /\ cwritten = {0, 1, 2}
    /\ cmem[0] = 249

----------------------------------------------------------------------------
\* A value for which encode_varint_u64 emits the leading byte b0
C14_ValueOf(b0) ==
    IF b0 < VARINT_CUT1 THEN FromInt(b0)
    ELSE IF b0 < VARINT_CUT2 THEN FromInt(200 + 256 * (b0 - VARINT_CUT1) + 1)
    ELSE IF b0 = 255 THEN U64Max(0)
    ELSE PowMinus(b0 - VARINT_CUT2 + 2, 0)

\* The number of bytes encode_varint_u64 writes when it emits b0
C14_EncodedLength(b0) ==
    LET r == encode_varint_u64(ZeroMem, C14_ValueOf(b0))
    IN  IF r.mem[0] = b0 THEN Cardinality(r.written) ELSE 0

----------------------------------------------------------------------------
\* The pages met within n hops from page q along the overflow fields
RECURSIVE C15_ChainWithin(_, _)
C15_ChainWithin(q, n) ==
    IF n = 0 \/ q \notin IndexIds \/ xov[q] = 0 THEN {q}
    ELSE {q} \cup C15_ChainWithin(xov[q], n - 1)

\* The pages of the chain that starts at page q
C15_Chain(q) == C15_ChainWithin(q, IndexPages + 1)

(* C15 as stated: overflow is the number of immediately following           *)
(* contiguous pages of the same record: the multi-page view that starts at  *)
(* page p consists of exactly the pages p, p+1, ..., p+overflow(p), and     *)
(* overflow = 0 means the single page p.                                    *)
C15_OverflowIsRunLength ==
    xpc = "returned" => xvisited = xstart..(xstart + xov[xstart])

(* C15 as amended: a page's overflow field is the id of the next page of    *)
(* the same record, 0 meaning there is none: when PageIndex::new returns,   *)
(* the view that starts at page p consists of exactly the pages p,          *)
(* overflow(p), overflow(overflow(p)), ... up to the first page whose       *)
(* overflow field is 0, and overflow = 0 means the single page p.           *)
C15_OverflowIsNextPage ==
    xpc = "returned" =>
        /\ xvisited = C15_Chain(xstart)
        /\ xov[xcur] = 0
        /\ xov[xstart] = 0 => xvisited = {xstart}

\* A view of two pages has been built from page 2, whose overflow field
\* names page 1
C15_Witness ==
    /\ xpc = "returned"
    /\ xstart = 2
    /\ xov[2] = 1
    /\ xvisited = {1, 2}

----------------------------------------------------------------------------
\* The visited pages whose length field is 2^31
C20_LongPages == {q \in xvisited : xlen[q] = <<0, 0, 0, 128>>}

\* On return: no page was pushed twice, capacity is 124 times the number of
\* pages visited and length is the sum of their length fields (the other
\* pages visited have length 0)
C20_Returned ==
    xpc = "returned" =>
        /\ ~xdup
        /\ xcapacity = PI_KEYS_PER_PAGE * Cardinality(xvisited)
        /\ Cardinality(C20_LongPages) <= 1
        /\ xlength = (IF C20_LongPages = {} THEN U32(0) ELSE <<0, 0, 0, 128>>)

(* C20: PageIndex::new terminates for every content of the page array and   *)
(* every start page, also when overflow fields point to the page itself or  *)
(* back to an earlier page of the chain; it visits each page at most once,  *)
(* and on return capacity = 124 * (number of pages visited) and length =    *)
(* the sum of the visited pages' length fields.                             *)
C20_IndexTerminates ==
    /\ <>(xpc # "loop")
    /\ [](~xdup)
    /\ []C20_Returned

----------------------------------------------------------------------------
\* The number of 7-bit groups of v: the length of its LEB128 encoding
C16_LebLength(v) ==
    LET bits == 64 - leading_zeros(v)
    IN  IF bits = 0 THEN 1 ELSE (bits + 6) \div 7

\* Each byte but the last of the encoding of v has bit 128 set, the last
\* has it clear
C16_ContinuationBits(v) ==
    /\ \A o \in 0..(C16_LebLength(v) - 2) : cmem[o] >= 128
    /\ cmem[C16_LebLength(v) - 1] < 128

(* C16: LEB128 round trip: decode_leb_u64 applied to the bytes written by   *)
(* encode_leb_u64(v) returns v for every u64 v, decode_leb_u32 applied to   *)
(* the bytes written by encode_leb_u32(v) returns v for every u32 v, and    *)
(* each byte but the last of an encoding has its continuation bit (128)     *)
(* set and the last has it clear.                                           *)
C16_LebRoundTrip ==
    /\ cpc \in {"encoded64", "encoded32"} => C16_ContinuationBits(cv)
    /\ cpc \notin {"failed64", "failed32"}
    /\ cpc \in {"decoded64", "decoded32"} => (cout = cv /\ C16_ContinuationBits(cv))

\* 2^64 - 1 has gone through encode_leb_u64 (ten bytes) and decode_leb_u64
C16_Witness ==
    /\ cpc = "decoded64"
    /\ cv = U64Max(0)
    /\ cwritten = 0..9
    /\ cout = cv

----------------------------------------------------------------------------
\* The number of bytes of the encoding of v
C17_EncodedLength(enc, v) ==
    IF enc = "varint" THEN Len(C13_EncoderTable(v)) ELSE C16_LebLength(v)

(* C17: each of encode_varint_u64, encode_leb_u64 and encode_leb_u32        *)
(* returns the total number of bytes of the encoding it wrote, for every    *)
(* input value; consequently values encoded back to back, each at the       *)
(* offset obtained by adding the previous return values, are all recovered  *)
(* by decoding at those same offsets.                                       *)
C17_ReturnsBytesWritten ==
    /\ \A i \in 1..Len(srets) : srets[i] = C17_EncodedLength(senc, sv[i])
    /\ spc = "done" => sout = sv

----------------------------------------------------------------------------
\* Length of the buffer of tests::can_encode_and_decode_leb32
C18_TestBufferLen == 4

\* A call of encode_leb_u32 leaves every byte at an offset >= its return
\* value as it was, and writes no offset >= 4
C18_EncodeStep ==
    (cpc = "start32" /\ cpc' = "encoded32") =>
        /\ \A o \in 0..(MemLen - 1) : o >= cret' => cmem'[o] = cmem[o]
        /\ \A o \in cwritten' : o < cret' /\ o < C18_TestBufferLen

(* C18: for every u32 v, encode_leb_u32(p, v) changes only the bytes at     *)
(* offsets 0..n-1 of the buffer, n being its return value; every byte at    *)
(* an offset >= n keeps its previous value, and no byte at offset >= 4 of   *)
(* the 4-byte buffer of the round-trip test is written.                     *)
C18_WritesOnlyEncoding == [][C18_EncodeStep]_vars

----------------------------------------------------------------------------
(* C19: JumpTable.set(index, value) and JumpTable.get(index) perform their  *)
(* 8-byte access exactly when index < capacity, every access they perform   *)
(* lies entirely inside the mapped file of 64 + 8 * capacity bytes, and for *)
(* every other index they panic with 'Index out of bound' without touching  *)
(* the mapping.                                                             *)
C19_AccessWithinCapacity ==
    jres.op # "none" =>
        /\ jfilelen = 64 + 8 * jcap
        /\ IF jres.index < jcap
           THEN /\ jres.kind = "access"
                /\ jres.offset >= HEADER_SIZE
                /\ jres.offset + SIZE_OF_U64 <= jfilelen
           ELSE jres.kind = "panic"

=============================================================================
